---- MODULE Spec2Model ----
(***************************************************************************)
(* Model of the QR raster producer and the overlay compositor of           *)
(* GoQrCodeGen (src/main.go).                                              *)
(*                                                                         *)
(* Two specifications share the geometry operators:                        *)
(*   Spec     the producer and the two compositor entry points on rasters  *)
(*            of real size (128..1024 pixels), dimensions only;            *)
(*   PixSpec  the two compositor entry points on small rasters whose       *)
(*            pixels are explicit 8-bit RGBA quadruples.                   *)
(*                                                                         *)
(* Library calls made by main.go are modelled by what the called library   *)
(* does: qrcode.New and QRCode.Image of github.com/skip2/go-qrcode,        *)
(* resize.Thumbnail of github.com/nfnt/resize and draw.Draw of image/draw. *)
(*                                                                         *)
(* float64 values (overlayPercent, overlayOpacity) are dyadic rationals    *)
(* [n, d] with d a power of two: they are exact float64 values, and so is  *)
(* their product with an integer below 2^16, so int(float64(x) * f) is the *)
(* truncated exact product.                                                *)
(***************************************************************************)
EXTENDS Integers, Sequences, FiniteSets, TLC

Nil == "nil"

\* the nil image.Image
NilImage == [nil |-> TRUE]

(***************************************************************************)
(* Program constants (src/main.go:21-29).                                  *)
(***************************************************************************)
QRSmall == 128
QRMedium == 256
QRLarge == 512
QRExtraLarge == 1024

\* LogoPercent = 0.25
LogoPercent == [n |-> 1, d |-> 4]

ValidSizes == {QRSmall, QRMedium, QRLarge, QRExtraLarge}

isValidQRCodeSize(size) ==
    size = QRSmall \/ size = QRMedium \/ size = QRLarge \/ size = QRExtraLarge

(***************************************************************************)
(* Bounds of the model.                                                    *)
(***************************************************************************)
\* the smallest fraction offered to the compositor is 1/2^MaxFracExp
MaxFracExp == 10
\* PixSpec: the base raster is at most MaxBase x MaxBase pixels
MaxBase == 4
\* PixSpec: the overlay raster is at most MaxOv x MaxOv pixels
MaxOv == 3

(***************************************************************************)
(* Arithmetic helpers.                                                     *)
(***************************************************************************)
Pow2(k) == 2 ^ k

\* Go's integer division truncates toward zero.
GoDiv(a, b) == IF a >= 0 THEN a \div b ELSE -((-a) \div b)

\* int(float64(x) * f): conversion of a float64 to int truncates toward zero.
IntOfProduct(x, f) == GoDiv(x * f.n, f.d)

Abs(x) == IF x < 0 THEN -x ELSE x
MaxOf(a, b) == IF a >= b THEN a ELSE b

(***************************************************************************)
(* github.com/skip2/go-qrcode as used by generateQRCode.                   *)
(*                                                                         *)
(* A payload is represented by the answer qrcode.New(data, qrcode.High)    *)
(* gives for it: v in 1..40 when version v is the smallest symbol that     *)
(* holds it at level High, and 41 when no version holds it ("content too   *)
(* long to encode").  The handlers never pass the empty string.            *)
(***************************************************************************)
MaxVersion == 40
QuietZone == 4
Payloads == 1 .. (MaxVersion + 1)

Encodable(data) == data >= 1 /\ data <= MaxVersion

\* q.symbol.size: modules of the symbol plus the quiet zone on both sides
RealSize(data) == (17 + 4 * data) + 2 * QuietZone

\* QRCode.Image(size): a square paletted image; the size is raised to
\* the symbol's size when it is too small to hold one pixel per module.
QRImage(data, size) ==
    LET realSize == RealSize(data)
        sz == IF size < 0 THEN size * (-1) * realSize ELSE size
        px == IF sz < realSize THEN realSize ELSE sz
    IN  [w |-> px, h |-> px]

generateQRCode_ignoreErr(data, size) ==
    [img |-> QRImage(data, size), err |-> ~Encodable(data)]

\* generateQRCode (src/main.go:912-921)
generateQRCode(data, size) ==
    IF ~Encodable(data)
    THEN [img |-> NilImage, err |-> TRUE]
    ELSE [img |-> QRImage(data, size), err |-> FALSE]

(***************************************************************************)
(* github.com/nfnt/resize as used by the compositor: the dimensions of     *)
(* resize.Thumbnail(maxWidth, maxHeight, img, resize.Lanczos3).            *)
(***************************************************************************)
AtLeast1(x) == IF x < 1 THEN 1 ELSE x

\* resize.Resize: a zero width or height is derived from the other one as
\* uint(0.7 + float64(old)/scale), computed here on exact rationals; an
\* image that already has the wanted size is returned as it is.
ResizeSize(width, height, ow, oh) ==
    LET w == IF width # 0 THEN width
             ELSE IF height = 0 THEN ow
             ELSE (7 * oh + 10 * ow * height) \div (10 * oh)
        h == IF height # 0 THEN height
             ELSE IF width = 0 THEN oh
             ELSE (7 * ow + 10 * oh * width) \div (10 * ow)
    IN  IF ow <= 0 \/ oh <= 0 THEN [w |-> ow, h |-> oh] ELSE [w |-> w, h |-> h]

ThumbnailSize_stretch(maxWidth, maxHeight, origWidth, origHeight) ==
    IF maxWidth >= origWidth /\ maxHeight >= origHeight
    THEN [w |-> origWidth, h |-> origHeight]
    ELSE ResizeSize(AtLeast1(maxWidth), AtLeast1(maxHeight), origWidth, origHeight)

ThumbnailSize_fill(maxWidth, maxHeight, origWidth, origHeight) ==
    LET h1 == AtLeast1((origHeight * maxWidth) \div origWidth)
        w2 == IF h1 > maxHeight THEN AtLeast1((maxWidth * maxHeight) \div h1) ELSE maxWidth
        h2 == IF h1 > maxHeight THEN maxHeight ELSE h1
    IN  ResizeSize(w2, h2, origWidth, origHeight)

\* resize.Thumbnail: the original when it fits, else the aspect-preserving
\* downscale, width first and then height, each clamped to at least 1.
ThumbnailSize(maxWidth, maxHeight, origWidth, origHeight) ==
    LET h1 == IF origWidth > maxWidth
              THEN AtLeast1((origHeight * maxWidth) \div origWidth)
              ELSE origHeight
        w1 == IF origWidth > maxWidth THEN maxWidth ELSE origWidth
        w2 == IF h1 > maxHeight THEN AtLeast1((w1 * maxHeight) \div h1) ELSE w1
        h2 == IF h1 > maxHeight THEN maxHeight ELSE h1
    IN  IF maxWidth >= origWidth /\ maxHeight >= origHeight
        THEN [w |-> origWidth, h |-> origHeight]
        ELSE ResizeSize(w2, h2, origWidth, origHeight)

(***************************************************************************)
(* Geometry of overlayImageOnQRCode (src/main.go:960-976) and of           *)
(* overlayImageOnQRCodeWithOpacity (src/main.go:1852-1870): the two        *)
(* functions compute it with the same statements.                          *)
(***************************************************************************)
NewRGBA_inset(b) == [w |-> b.w - 1, h |-> b.h - 1]

\* image.NewRGBA(b): a raster with the bounds b
NewRGBA(b) == [w |-> b.w, h |-> b.h]

CenterOffset(qrWidth, qrHeight, ovWidth, ovHeight) ==
    [x |-> GoDiv(qrWidth - ovWidth, 2), y |-> GoDiv(qrHeight - ovHeight, 2)]

\* overlayImageOnQRCode, src/main.go:960-976: bounds of the QR code, maximum
\* overlay size, resize, centring offset and allocation of the result.
overlayImageOnQRCode_geom(qrCode, overlay, overlayPercent) ==
    LET qrWidth == qrCode.w
        qrHeight == qrCode.h
        overlayMaxWidth == IntOfProduct(qrWidth, overlayPercent)
        overlayMaxHeight == IntOfProduct(qrHeight, overlayPercent)
        resized == ThumbnailSize(overlayMaxWidth, overlayMaxHeight, overlay.w, overlay.h)
    IN  [overlayMaxWidth |-> overlayMaxWidth,
         overlayMaxHeight |-> overlayMaxHeight,
         resized |-> resized,
         offset |-> CenterOffset(qrWidth, qrHeight, resized.w, resized.h),
         m |-> NewRGBA([w |-> qrWidth, h |-> qrHeight])]

overlayImageOnQRCodeWithOpacity_geom_early(qrCode, overlay, overlayPercent, overlayOpacity) ==
    LET qrWidth == qrCode.w
        qrHeight == qrCode.h
        overlayMaxWidth == IntOfProduct(qrWidth, overlayPercent)
        overlayMaxHeight == IntOfProduct(qrHeight, overlayPercent)
        resized == ThumbnailSize(overlayMaxWidth, overlayMaxHeight, overlay.w, overlay.h)
    IN  [overlayMaxWidth |-> overlayMaxWidth,
         overlayMaxHeight |-> overlayMaxHeight,
         resized |-> resized,
         offset |-> CenterOffset(qrWidth, qrHeight, overlay.w, overlay.h),
         m |-> NewRGBA([w |-> qrWidth, h |-> qrHeight])]

\* overlayImageOnQRCodeWithOpacity, src/main.go:1852-1870: the same
\* statements; the opacity plays no part in the geometry.
overlayImageOnQRCodeWithOpacity_geom(qrCode, overlay, overlayPercent, overlayOpacity) ==
    LET qrWidth == qrCode.w
        qrHeight == qrCode.h
        overlayMaxWidth == IntOfProduct(qrWidth, overlayPercent)
        overlayMaxHeight == IntOfProduct(qrHeight, overlayPercent)
        resized == ThumbnailSize(overlayMaxWidth, overlayMaxHeight, overlay.w, overlay.h)
    IN  [overlayMaxWidth |-> overlayMaxWidth,
         overlayMaxHeight |-> overlayMaxHeight,
         resized |-> resized,
         offset |-> CenterOffset(qrWidth, qrHeight, resized.w, resized.h),
         m |-> NewRGBA([w |-> qrWidth, h |-> qrHeight])]

(***************************************************************************)
(* Pixels.  A raster is [w, h, kind, pix]: pix maps the coordinates        *)
(* <<x, y>> of Coords(w, h) to the stored 8-bit quadruple <<r, g, b, a>>;  *)
(* kind is the Go image type: "NRGBA" stores non-premultiplied colour,     *)
(* "RGBA" alpha-premultiplied colour, "Paletted" (the QR code) indexes     *)
(* opaque palette colours.  All bounds start at (0, 0).                    *)
(***************************************************************************)
M16 == 65535
Coords(w, h) == (0 .. (w - 1)) \X (0 .. (h - 1))
Channels == 1 .. 4

\* Color.RGBA(): the 16-bit alpha-premultiplied quadruple of a stored pixel.
\* color.NRGBA: r = R*0x101 * (A*0x101) / 0xffff, which is R*A*0x101 / 0xff
\* (written so, products stay below 2^31); the others: c |= c << 8.
RGBA16(kind, p) ==
    IF kind = "NRGBA"
    THEN <<(p[1] * p[4] * 257) \div 255, (p[2] * p[4] * 257) \div 255,
           (p[3] * p[4] * 257) \div 255, p[4] * 257>>
    ELSE <<p[1] * 257, p[2] * 257, p[3] * 257, p[4] * 257>>

\* (m - sa) * 0x101 applied to an 8-bit destination channel and divided by
\* m: dr * (m - sa) * 0x101 / m = dr * (m - sa) / 0xff, since m = 0x101 * 0xff.
DstPart(d, sa) == (d * (M16 - sa)) \div 255

\* the value of ((d*a/m + s) >> 8) before its conversion to uint8
OverRaw(d, s, sa) == (DstPart(d, sa) + s) \div 256

Uint8(x) == x % 256
Uint16(x) == x % 65536

\* image/draw drawCopyOver and drawNRGBAOver: one destination pixel d
\* (8-bit RGBA) under the source pixel whose 16-bit values are s.
OverPixel(d, s) == [i \in Channels |-> Uint8(OverRaw(d[i], s[i], s[4]))]

\* source values used by draw.Draw with draw.Over: drawCopyOver widens the
\* stored bytes of an RGBA source, drawNRGBAOver premultiplies an NRGBA one.
SrcOver16(kind, p) ==
    IF kind = "NRGBA"
    THEN <<(p[1] * (p[4] * 257)) \div 255, (p[2] * (p[4] * 257)) \div 255,
           (p[3] * (p[4] * 257)) \div 255, p[4] * 257>>
    ELSE <<p[1] * 257, p[2] * 257, p[3] * 257, p[4] * 257>>

\* overlay.Bounds().Add(offset) contains the point xy
InRect(xy, offset, ov) ==
    /\ offset.x <= xy[1] /\ xy[1] < offset.x + ov.w
    /\ offset.y <= xy[2] /\ xy[2] < offset.y + ov.h

\* draw.Draw(m, qrBounds, qrCode, image.Point{}, draw.Src): every pixel of
\* m takes the colour of qrCode, converted to 8 bits per channel.
DrawSrc(b, src) ==
    [w |-> b.w, h |-> b.h, kind |-> "RGBA",
     pix |-> [xy \in Coords(b.w, b.h) |->
                 LET c == RGBA16(src.kind, src.pix[xy])
                 IN  <<c[1] \div 256, c[2] \div 256, c[3] \div 256, c[4] \div 256>>]]

DrawOver_wholeImage(m, ov, offset) ==
    [m EXCEPT !.pix =
        [xy \in Coords(m.w, m.h) |->
            IF ov.w > 0 /\ ov.h > 0
            THEN OverPixel(m.pix[xy], SrcOver16(ov.kind, ov.pix[<<0, 0>>]))
            ELSE m.pix[xy]]]

\* draw.Draw(m, overlay.Bounds().Add(offset), overlay, image.Point{}, draw.Over):
\* the rectangle is clipped to m; inside it the overlay is blended over m.
DrawOver(m, ov, offset) ==
    [m EXCEPT !.pix =
        [xy \in Coords(m.w, m.h) |->
            IF InRect(xy, offset, ov)
            THEN OverPixel(m.pix[xy],
                           SrcOver16(ov.kind, ov.pix[<<xy[1] - offset.x, xy[2] - offset.y>>]))
            ELSE m.pix[xy]]]

\* Content of resize.Thumbnail's result: the image itself when its size is
\* kept; otherwise a new RGBA raster.  The overlays of PixSpec have one
\* colour, and the Lanczos kernel is normalised (each output value is the
\* weighted sum divided by the sum of the weights), so the new raster has
\* that colour, premultiplied (r*a/0xff) when the input is NRGBA.
ThumbnailImage(img, sz) ==
    IF sz.w = img.w /\ sz.h = img.h
    THEN img
    ELSE LET p == img.pix[<<0, 0>>]
             q == IF img.kind = "NRGBA"
                  THEN <<(p[1] * p[4]) \div 255, (p[2] * p[4]) \div 255,
                         (p[3] * p[4]) \div 255, p[4]>>
                  ELSE p
         IN  [w |-> sz.w, h |-> sz.h, kind |-> "RGBA",
              pix |-> [xy \in Coords(sz.w, sz.h) |-> q]]

\* applyOpacity (src/main.go:1887-1916): a new RGBA raster; each pixel is
\* color.RGBA64{r, g, b, uint32(float64(a) * opacity)} stored by Set, which
\* keeps the high byte of every channel.
applyOpacity(img, opacity) ==
    [w |-> img.w, h |-> img.h, kind |-> "RGBA",
     pix |-> [xy \in Coords(img.w, img.h) |->
                 LET c == RGBA16(img.kind, img.pix[xy])
                     a == IntOfProduct(c[4], opacity)
                 IN  <<Uint16(c[1]) \div 256, Uint16(c[2]) \div 256,
                       Uint16(c[3]) \div 256, Uint16(a) \div 256>>]]

\* overlayImageOnQRCode (src/main.go:958-986)
overlayImageOnQRCode(qrCode, overlay, overlayPercent) ==
    LET g == overlayImageOnQRCode_geom(qrCode, overlay, overlayPercent)
        resized == ThumbnailImage(overlay, g.resized)
        m0 == DrawSrc(g.m, qrCode)
    IN  [overlayMaxWidth |-> g.overlayMaxWidth,
         overlayMaxHeight |-> g.overlayMaxHeight,
         resized |-> g.resized,
         offset |-> g.offset,
         drawn |-> resized,
         m |-> DrawOver(m0, resized, g.offset)]

\* overlayImageOnQRCodeWithOpacity (src/main.go:1850-1884)
overlayImageOnQRCodeWithOpacity(qrCode, overlay, overlayPercent, overlayOpacity) ==
    LET g == overlayImageOnQRCodeWithOpacity_geom(qrCode, overlay, overlayPercent, overlayOpacity)
        resized == ThumbnailImage(overlay, g.resized)
        m0 == DrawSrc(g.m, qrCode)
        faded == applyOpacity(resized, overlayOpacity)
    IN  [overlayMaxWidth |-> g.overlayMaxWidth,
         overlayMaxHeight |-> g.overlayMaxHeight,
         resized |-> g.resized,
         offset |-> g.offset,
         drawn |-> faded,
         m |-> DrawOver(m0, faded, g.offset)]

(***************************************************************************)
(* The same two functions over image objects.  A heap is a sequence of     *)
(* rasters and a reference is an index into it: an allocation appends, a   *)
(* write replaces the raster at the reference written to.                  *)
(***************************************************************************)
\* image.NewRGBA(b): a new raster of zero pixels
NewRGBA_mem(heap, b) ==
    [heap |-> Append(heap, [w |-> b.w, h |-> b.h, kind |-> "RGBA",
                            pix |-> [xy \in Coords(b.w, b.h) |-> <<0, 0, 0, 0>>]]),
     ref |-> Len(heap) + 1]

\* resize.Thumbnail: its argument when the size is kept, else a new raster
Thumbnail_mem(heap, img, sz) ==
    IF sz.w = heap[img].w /\ sz.h = heap[img].h
    THEN [heap |-> heap, ref |-> img]
    ELSE [heap |-> Append(heap, ThumbnailImage(heap[img], sz)), ref |-> Len(heap) + 1]

\* draw.Draw(dst, dst.Bounds(), src, image.Point{}, draw.Src): writes dst
Draw_Src_mem(heap, dst, src) ==
    [heap EXCEPT ![dst] = DrawSrc([w |-> heap[dst].w, h |-> heap[dst].h], heap[src])]

\* draw.Draw(dst, overlayBounds.Add(offset), src, image.Point{}, draw.Over): writes dst
Draw_Over_mem(heap, dst, src, offset) ==
    [heap EXCEPT ![dst] = DrawOver(heap[dst], heap[src], offset)]

applyOpacity_inPlace(heap, img, opacity) ==
    [heap |-> [heap EXCEPT ![img] = applyOpacity(heap[img], opacity)], ref |-> img]

\* applyOpacity (src/main.go:1887-1916): newImg := image.NewRGBA(bounds),
\* every pixel is Set on newImg, newImg is returned
applyOpacity_mem(heap, img, opacity) ==
    [heap |-> Append(heap, applyOpacity(heap[img], opacity)), ref |-> Len(heap) + 1]

\* overlayImageOnQRCode (src/main.go:958-986) over image objects
overlayImageOnQRCode_mem(heap, qrCode, overlay, overlayPercent) ==
    LET g  == overlayImageOnQRCode_geom(heap[qrCode], heap[overlay], overlayPercent)
        t  == Thumbnail_mem(heap, overlay, g.resized)
        n  == NewRGBA_mem(t.heap, g.m)
        h1 == Draw_Src_mem(n.heap, n.ref, qrCode)
        h2 == Draw_Over_mem(h1, n.ref, t.ref, g.offset)
    IN  [heap |-> h2, m |-> n.ref]

\* overlayImageOnQRCodeWithOpacity (src/main.go:1850-1884) over image objects
overlayImageOnQRCodeWithOpacity_mem(heap, qrCode, overlay, overlayPercent, overlayOpacity) ==
    LET g  == overlayImageOnQRCodeWithOpacity_geom(heap[qrCode], heap[overlay],
                                                   overlayPercent, overlayOpacity)
        t  == Thumbnail_mem(heap, overlay, g.resized)
        n  == NewRGBA_mem(t.heap, g.m)
        h1 == Draw_Src_mem(n.heap, n.ref, qrCode)
        f  == applyOpacity_mem(h1, t.ref, overlayOpacity)
        h2 == Draw_Over_mem(f.heap, n.ref, f.ref, g.offset)
    IN  [heap |-> h2, m |-> n.ref]

(***************************************************************************)
(* Inputs offered to the core.                                             *)
(***************************************************************************)
\* overlayPercent: 1, 1/2, 1/4, 1/8, 1/2^MaxFracExp and 3/4, all in (0, 1]
Fractions == {[n |-> 1, d |-> Pow2(k)] : k \in {0, 1, 2, 3, MaxFracExp}} \cup {[n |-> 3, d |-> 4]}

\* overlayOpacity: 0, 0.5, 1 and 1.5 (the handlers pass any parsed number)
Opacities == {[n |-> 0, d |-> 1], [n |-> 1, d |-> 2], [n |-> 1, d |-> 1], [n |-> 3, d |-> 2]}

\* sides of the decoded overlay images offered in Spec
OverlaySides == {1, 3, 64, 999, 1000, 2000}
OverlayDims == {[w |-> ow, h |-> oh] : ow \in OverlaySides, oh \in OverlaySides}

(***************************************************************************)
(* State.  Variables of Spec: pc, data, size, qrCode, err, fn, overlay,    *)
(* overlayPercent, overlayOpacity, geo.  Variables of PixSpec: the p...    *)
(* ones.                                                                   *)
(***************************************************************************)
VARIABLES
    pc,              \* "idle", "generated" or "overlaid"
    data,            \* the payload handed to generateQRCode
    size,            \* the size handed to generateQRCode
    qrCode,          \* the image generateQRCode returned, or NilImage
    err,             \* whether generateQRCode returned an error
    fn,              \* the compositor entry point called: "plain", "opacity"
    overlay,         \* the decoded overlay image handed to the compositor
    overlayPercent,  \* the fraction handed to the compositor
    overlayOpacity,  \* the opacity handed to the compositor
    geo,             \* locals and result of the compositor call
    ppc,             \* PixSpec: "ready" or "done"
    pQr,             \* PixSpec: the base raster
    pOverlay,        \* PixSpec: the overlay raster
    pPercent,        \* PixSpec: the fraction
    pOpacity,        \* PixSpec: the opacity
    pFn,             \* PixSpec: the entry point called
    pRes,            \* PixSpec: locals and result of the call
    pMem,            \* PixSpec: the image objects, and the reference returned
    hpc,             \* HandlerSpec: "wait" or "served"
    hReq,            \* HandlerSpec: the request being served
    hResp,           \* HandlerSpec: the response written
    hGen,            \* HandlerSpec: the call of generateQRCode made, if any
    hOv,             \* HandlerSpec: the compositor call made, if any
    cpc,             \* ConcSpec: the statement each in-flight request is at
    cReq,            \* ConcSpec: the request of each goroutine
    cLocals,         \* ConcSpec: the local variables of each handler call
    cResp,           \* ConcSpec: the response written for each request
    cDisk            \* ConcSpec: the logo file on disk

coreVars == <<pc, data, size, qrCode, err, fn, overlay, overlayPercent, overlayOpacity, geo>>
pixVars == <<ppc, pQr, pOverlay, pPercent, pOpacity, pFn, pRes, pMem>>
hVars == <<hpc, hReq, hResp, hGen, hOv>>
cVars == <<cpc, cReq, cLocals, cResp, cDisk>>
vars == <<pc, data, size, qrCode, err, fn, overlay, overlayPercent, overlayOpacity, geo,
          ppc, pQr, pOverlay, pPercent, pOpacity, pFn, pRes, pMem,
          hpc, hReq, hResp, hGen, hOv,
          cpc, cReq, cLocals, cResp, cDisk>>

PixIdle ==
    /\ ppc = "off"
    /\ pQr = Nil /\ pOverlay = Nil /\ pPercent = Nil /\ pOpacity = Nil
    /\ pFn = Nil /\ pRes = Nil /\ pMem = Nil

\* no call made
NoCall == [called |-> FALSE]

HIdle ==
    /\ hpc = "off"
    /\ hReq = Nil /\ hResp = Nil /\ hGen = NoCall /\ hOv = NoCall

CIdle ==
    /\ cpc = Nil /\ cReq = Nil /\ cLocals = Nil /\ cResp = Nil /\ cDisk = Nil

CoreIdle ==
    /\ pc = "idle"
    /\ data = Nil /\ size = Nil /\ qrCode = NilImage /\ err = FALSE
    /\ fn = Nil /\ overlay = Nil /\ overlayPercent = Nil /\ overlayOpacity = Nil
    /\ geo = Nil

(***************************************************************************)
(* Spec: one request at a time calls generateQRCode and then, when it      *)
(* succeeded, possibly one of the two compositor entry points.             *)
(***************************************************************************)
Init == CoreIdle /\ PixIdle /\ HIdle /\ CIdle

\* a handler calls generateQRCode(data, size) with a validated size
GenerateQRCode(d, s) ==
    /\ pc = "idle"
    /\ isValidQRCodeSize(s)
    /\ LET res == generateQRCode(d, s)
       IN  /\ qrCode' = res.img
           /\ err' = res.err
    /\ data' = d
    /\ size' = s
    /\ pc' = "generated"
    /\ UNCHANGED <<fn, overlay, overlayPercent, overlayOpacity, geo>>
    /\ UNCHANGED pixVars
    /\ UNCHANGED hVars
    /\ UNCHANGED cVars

\* a fixed-logo handler calls overlayImageOnQRCode(qrCode, logo, LogoPercent)
OverlayImageOnQRCode(ov) ==
    /\ pc = "generated"
    /\ ~err
    /\ fn' = "plain"
    /\ overlay' = ov
    /\ overlayPercent' = LogoPercent
    /\ overlayOpacity' = Nil
    /\ geo' = overlayImageOnQRCode_geom(qrCode, ov, LogoPercent)
    /\ pc' = "overlaid"
    /\ UNCHANGED <<data, size, qrCode, err>>
    /\ UNCHANGED pixVars
    /\ UNCHANGED hVars
    /\ UNCHANGED cVars

\* a custom-image handler calls overlayImageOnQRCodeWithOpacity(qrCode,
\* overlayImage, logoWidthPercent, logoOpacity)
OverlayImageOnQRCodeWithOpacity(ov, f, o) ==
    /\ pc = "generated"
    /\ ~err
    /\ fn' = "opacity"
    /\ overlay' = ov
    /\ overlayPercent' = f
    /\ overlayOpacity' = o
    /\ geo' = overlayImageOnQRCodeWithOpacity_geom(qrCode, ov, f, o)
    /\ pc' = "overlaid"
    /\ UNCHANGED <<data, size, qrCode, err>>
    /\ UNCHANGED pixVars
    /\ UNCHANGED hVars
    /\ UNCHANGED cVars

\* the handler returns; nothing of the request outlives it
Finish ==
    /\ pc \in {"generated", "overlaid"}
    /\ pc' = "idle"
    /\ data' = Nil /\ size' = Nil /\ qrCode' = NilImage /\ err' = FALSE
    /\ fn' = Nil /\ overlay' = Nil /\ overlayPercent' = Nil /\ overlayOpacity' = Nil
    /\ geo' = Nil
    /\ UNCHANGED pixVars
    /\ UNCHANGED hVars
    /\ UNCHANGED cVars

Next ==
    \/ \E d \in Payloads, s \in ValidSizes : GenerateQRCode(d, s)
    \/ \E ov \in OverlayDims : OverlayImageOnQRCode(ov)
    \/ \E ov \in OverlayDims, f \in Fractions, o \in Opacities :
          OverlayImageOnQRCodeWithOpacity(ov, f, o)
    \/ Finish

Spec == Init /\ [][Next]_vars

(***************************************************************************)
(* PixSpec: the compositor as a function of a small base raster, a small   *)
(* one-colour overlay, a fraction and an opacity.                          *)
(***************************************************************************)
White == <<255, 255, 255, 255>>
Black == <<0, 0, 0, 255>>

\* base rasters: black and white modules in a chequered pattern
BaseRaster(w, h, p) ==
    [w |-> w, h |-> h, kind |-> "Paletted",
     pix |-> [xy \in Coords(w, h) |-> IF (xy[1] + xy[2] + p) % 2 = 0 THEN White ELSE Black]]

PixBases == {BaseRaster(w, h, p) : w \in 1 .. MaxBase, h \in 1 .. MaxBase, p \in {0, 1}}

\* overlay colours as image.Decode delivers them: NRGBA for a PNG with an
\* alpha channel (opaque red, half-transparent, fully transparent with
\* colour), RGBA for an opaque true-colour PNG (blue)
OverlayColours ==
    {[kind |-> "NRGBA", px |-> <<255, 0, 0, 255>>],
     [kind |-> "NRGBA", px |-> <<200, 100, 50, 128>>],
     [kind |-> "NRGBA", px |-> <<200, 0, 0, 0>>],
     [kind |-> "RGBA", px |-> <<0, 0, 255, 255>>]}

OverlayRaster(w, h, c) ==
    [w |-> w, h |-> h, kind |-> c.kind, pix |-> [xy \in Coords(w, h) |-> c.px]]

PixOverlays == {OverlayRaster(w, h, c) : w \in 1 .. MaxOv, h \in 1 .. MaxOv, c \in OverlayColours}

PixFractions == {[n |-> 1, d |-> 4], [n |-> 1, d |-> 2], [n |-> 3, d |-> 4], [n |-> 1, d |-> 1]}

CoreOff ==
    /\ pc = "off"
    /\ data = Nil /\ size = Nil /\ qrCode = NilImage /\ err = FALSE
    /\ fn = Nil /\ overlay = Nil /\ overlayPercent = Nil /\ overlayOpacity = Nil
    /\ geo = Nil

PixInit ==
    /\ CoreOff
    /\ HIdle
    /\ CIdle
    /\ ppc = "ready"
    /\ pQr \in PixBases
    /\ pOverlay \in PixOverlays
    /\ pPercent \in PixFractions
    /\ pOpacity \in Opacities
    /\ pFn = Nil
    /\ pRes = Nil
    /\ pMem = [heap |-> <<pQr, pOverlay>>, m |-> 0]

PixOverlayImageOnQRCode ==
    /\ ppc = "ready"
    /\ pFn' = "plain"
    /\ pRes' = overlayImageOnQRCode(pQr, pOverlay, pPercent)
    /\ pMem' = overlayImageOnQRCode_mem(pMem.heap, 1, 2, pPercent)
    /\ ppc' = "done"
    /\ UNCHANGED <<pQr, pOverlay, pPercent, pOpacity>>
    /\ UNCHANGED coreVars
    /\ UNCHANGED hVars
    /\ UNCHANGED cVars

PixOverlayImageOnQRCodeWithOpacity ==
    /\ ppc = "ready"
    /\ pFn' = "opacity"
    /\ pRes' = overlayImageOnQRCodeWithOpacity(pQr, pOverlay, pPercent, pOpacity)
    /\ pMem' = overlayImageOnQRCodeWithOpacity_mem(pMem.heap, 1, 2, pPercent, pOpacity)
    /\ ppc' = "done"
    /\ UNCHANGED <<pQr, pOverlay, pPercent, pOpacity>>
    /\ UNCHANGED coreVars
    /\ UNCHANGED hVars
    /\ UNCHANGED cVars

PixNext ==
    \/ PixOverlayImageOnQRCode
    \/ PixOverlayImageOnQRCodeWithOpacity

PixSpec == PixInit /\ [][PixNext]_vars

(***************************************************************************)
(* HandlerSpec: the HTTP handlers.  A form value is the sequence of its    *)
(* characters, <<>> when the field is absent (r.FormValue returns "").     *)
(***************************************************************************)
DigitValue ==
    ("0" :> 0) @@ ("1" :> 1) @@ ("2" :> 2) @@ ("3" :> 3) @@ ("4" :> 4) @@
    ("5" :> 5) @@ ("6" :> 6) @@ ("7" :> 7) @@ ("8" :> 8) @@ ("9" :> 9)

AllDigits(s) == \A i \in 1 .. Len(s) : s[i] \in DOMAIN DigitValue

RECURSIVE DigitsValue(_)
DigitsValue(s) ==
    IF s = <<>> THEN 0
    ELSE 10 * DigitsValue(SubSeq(s, 1, Len(s) - 1)) + DigitValue[s[Len(s)]]

RECURSIVE Pow10(_)
Pow10(k) == IF k = 0 THEN 1 ELSE 10 * Pow10(k - 1)

\* the text after an optional leading sign, and the sign
Unsigned(s) == IF s # <<>> /\ s[1] \in {"+", "-"} THEN Tail(s) ELSE s
Sign(s) == IF s # <<>> /\ s[1] = "-" THEN -1 ELSE 1

\* strconv.Atoi: an optional sign and at least one decimal digit; 0 and an
\* error for anything else
Atoi(s) ==
    LET b  == Unsigned(s)
        ok == b # <<>> /\ AllDigits(b)
    IN  [ok |-> ok, val |-> IF ok THEN Sign(s) * DigitsValue(b) ELSE 0]

\* strconv.ParseFloat(s, 64) on decimal notation: an optional sign, digits
\* with at most one point and at least one digit.  The value is the exact
\* rational n/d.  (Go also reads exponents, hexadecimal notation, "inf" and
\* "nan"; no text offered below uses them.)
ParseFloat(s) ==
    LET b    == Unsigned(s)
        dots == {i \in 1 .. Len(b) : b[i] = "."}
        p    == IF dots = {} THEN Len(b) + 1 ELSE CHOOSE i \in dots : TRUE
        ip   == SubSeq(b, 1, p - 1)
        fp   == SubSeq(b, p + 1, Len(b))
        ok   == /\ Cardinality(dots) <= 1
                /\ AllDigits(ip) /\ AllDigits(fp)
                /\ Len(ip) + Len(fp) >= 1
    IN  [ok |-> ok,
         val |-> IF ok
                 THEN [n |-> Sign(s) * (DigitsValue(ip) * Pow10(Len(fp)) + DigitsValue(fp)),
                       d |-> Pow10(Len(fp))]
                 ELSE [n |-> 0, d |-> 1]]

StatusOK == 200
StatusBadRequest == 400
StatusMethodNotAllowed == 405
StatusInternalServerError == 500

\* http.Error(w, message, code)
HttpError(message, code) ==
    [status |-> code, contentType |-> "text/plain; charset=utf-8",
     message |-> message, body |-> NilImage]

\* w.Header().Set("Content-Type", "image/png"); png.Encode(w, qrCode)
PngResponse(img) ==
    [status |-> StatusOK, contentType |-> "image/png", message |-> "", body |-> img]

\* what a handler did: its response and the calls of the core it made
Outcome(resp, gen, ov) == [resp |-> resp, gen |-> gen, ov |-> ov]

GenCall(d, sz) == [called |-> TRUE, data |-> d, size |-> sz]
OvCall(f, img, percent, opacity) ==
    [called |-> TRUE, fn |-> f, overlay |-> img, percent |-> percent, opacity |-> opacity]

(***************************************************************************)
(* Requests.                                                               *)
(***************************************************************************)
Methods == {"POST", "GET"}

\* the size field: absent, "abc", "128", "1024", "100", "-128"
SizeTexts ==
    {<<>>, <<"a", "b", "c">>, <<"1", "2", "8">>, <<"1", "0", "2", "4">>,
     <<"1", "0", "0">>, <<"-", "1", "2", "8">>}

\* the logoWidthPercent field: absent, "abc", "0.25", "1", "2", "0"
PercentTexts ==
    {<<>>, <<"a", "b", "c">>, <<"0", ".", "2", "5">>, <<"1">>, <<"2">>, <<"0">>}

\* the logoOpacity field: absent, "x", "0.5", "1", "1.5"
OpacityTexts ==
    {<<>>, <<"x">>, <<"0", ".", "5">>, <<"1">>, <<"1", ".", "5">>}

\* a text field that becomes the payload, by the QR version its payload
\* needs; 0 stands for the empty field
PayloadFields == {0, 1, 26, MaxVersion + 1}

\* rasters an upload or a logo file decodes to
HandlerImages == {[w |-> 64, h |-> 64], [w |-> 2000, h |-> 1000]}

\* the image part of a multipart form: not sent (http.ErrMissingFile),
\* unreadable (any other error of r.FormFile, such as a body that is not
\* multipart), not an image, or an image
Uploads ==
    {[file |-> "missing"], [file |-> "unreadable"], [file |-> "undecodable"]}
        \cup {[file |-> "image", img |-> i] : i \in HandlerImages}

\* the logo file on disk: absent, not an image, or an image
LogoFiles ==
    {[file |-> "absent"], [file |-> "undecodable"]}
        \cup {[file |-> "image", img |-> i] : i \in HandlerImages}

\* the latitude field: absent, "abc", "45.5", "91", "-90"
LatitudeTexts ==
    {<<>>, <<"a", "b", "c">>, <<"4", "5", ".", "5">>, <<"9", "1">>, <<"-", "9", "0">>}

\* the longitude field: absent, "12", "181"
LongitudeTexts == {<<>>, <<"1", "2">>, <<"1", "8", "1">>}

\* the text generateVCardString builds, by the QR version it needs: the
\* card of empty fields (88 bytes), a long card, a card beyond capacity
VCards == {9, 26, MaxVersion + 1}

\* fmt.Sprintf("geo:%f,%f", lat, lon): 21 to 27 bytes
GeoURL == 4

GenerateRequests ==
    {[handler |-> "generate", method |-> m, url |-> u, image |-> i, size |-> sz,
      logoWidthPercent |-> p, logoOpacity |-> o] :
        m \in Methods, u \in PayloadFields, i \in Uploads, sz \in SizeTexts,
        p \in PercentTexts, o \in OpacityTexts}

VCardRequests ==
    {[handler |-> "generate_vcard", method |-> m, vCard |-> v, image |-> i, size |-> sz,
      logoWidthPercent |-> p, logoOpacity |-> o] :
        m \in Methods, v \in VCards, i \in Uploads, sz \in SizeTexts,
        p \in PercentTexts, o \in OpacityTexts}

MapRequests ==
    {[handler |-> "generate_map", method |-> m, latitude |-> la, longitude |-> lo,
      size |-> sz, logo |-> l] :
        m \in Methods, la \in LatitudeTexts, lo \in LongitudeTexts,
        sz \in SizeTexts, l \in LogoFiles}

LinkedInRequests ==
    {[handler |-> "generate_linkedin", method |-> m, username |-> u, size |-> sz,
      logo |-> l] :
        m \in Methods, u \in PayloadFields, sz \in SizeTexts, l \in LogoFiles}

\* texts of the Wi-Fi form
Chars_WPA == <<"W", "P", "A">>
Chars_WPA2 == <<"W", "P", "A", "2">>
Chars_WPA3 == <<"W", "P", "A", "3">>
Chars_WEP == <<"W", "E", "P">>
Chars_nopass == <<"n", "o", "p", "a", "s", "s">>

\* the security field: absent, "wpa", and the five accepted values
SecurityTexts ==
    {<<>>, <<"w", "p", "a">>, Chars_WPA, Chars_WPA2, Chars_WPA3, Chars_WEP, Chars_nopass}

\* the ssid field: absent, "MyNet"
SsidTexts == {<<>>, <<"M", "y", "N", "e", "t">>}

\* a password of n bytes
PasswordOfLen(n) == [i \in 1 .. n |-> "p"]

\* the password field: absent, "secret123", and 5, 7, 8, 13, 63 and 64 bytes
PasswordTexts ==
    {<<>>, <<"s", "e", "c", "r", "e", "t", "1", "2", "3">>}
        \cup {PasswordOfLen(n) : n \in {5, 7, 8, 13, 63, 64}}

WiFiRequests ==
    {[handler |-> "generate_wifi", method |-> m, ssid |-> ss, password |-> pw,
      security |-> se, size |-> sz, logo |-> l] :
        m \in Methods, ss \in SsidTexts, pw \in PasswordTexts, se \in SecurityTexts,
        sz \in SizeTexts, l \in LogoFiles}

(***************************************************************************)
(* Handlers.                                                               *)
(***************************************************************************)
FixedLogoTail_skipLogo(url, sz, logo, openMessage, decodeMessage) ==
    LET g   == generateQRCode(url, sz)
        gen == GenCall(url, sz)
    IN  IF g.err
        THEN Outcome(HttpError("Failed to generate QR code", StatusInternalServerError),
                     gen, NoCall)
        ELSE IF logo.file \in {"absent", "undecodable"}
        THEN Outcome(PngResponse(g.img), gen, NoCall)
        ELSE Outcome(PngResponse(overlayImageOnQRCode_geom(g.img, logo.img, LogoPercent).m),
                     gen, OvCall("plain", logo.img, LogoPercent, Nil))

\* the part every fixed-logo handler ends with: generateQRCode, open and
\* decode the logo, overlayImageOnQRCode(qrCode, logo, LogoPercent), PNG
FixedLogoTail(url, sz, logo, openMessage, decodeMessage) ==
    LET g   == generateQRCode(url, sz)
        gen == GenCall(url, sz)
    IN  IF g.err
        THEN Outcome(HttpError("Failed to generate QR code", StatusInternalServerError),
                     gen, NoCall)
        ELSE IF logo.file = "absent"
        THEN Outcome(HttpError(openMessage, StatusInternalServerError),
                     gen, NoCall)
        ELSE IF logo.file = "undecodable"
        THEN Outcome(HttpError(decodeMessage, StatusInternalServerError),
                     gen, NoCall)
        ELSE Outcome(PngResponse(overlayImageOnQRCode_geom(g.img, logo.img, LogoPercent).m),
                     gen, OvCall("plain", logo.img, LogoPercent, Nil))

CustomImageTail_ignoreDecodeErr(qr, image, gen, percent, opacity) ==
    LET decoded == IF image.file = "image" THEN image.img ELSE [w |-> 0, h |-> 0]
    IN  IF image.file = "missing"
        THEN Outcome(PngResponse(qr), gen, NoCall)
        ELSE Outcome(PngResponse(overlayImageOnQRCodeWithOpacity_geom(
                                     qr, decoded, percent, opacity).m),
                     gen, OvCall("opacity", decoded, percent, opacity))

CustomImageTail_defaultLogo(qr, image, gen, percent, opacity) ==
    LET decoded == IF image.file = "missing" THEN [w |-> 64, h |-> 64] ELSE image.img
    IN  IF image.file = "undecodable"
        THEN Outcome(HttpError("Failed to decode image", StatusInternalServerError),
                     gen, NoCall)
        ELSE Outcome(PngResponse(overlayImageOnQRCodeWithOpacity_geom(
                                     qr, decoded, percent, opacity).m),
                     gen, OvCall("opacity", decoded, percent, opacity))

\* the part both custom-image handlers end with once the QR code exists
\* and the upload was read: decode it and overlay it, if there is one
CustomImageTail(qr, image, gen, percent, opacity) ==
    IF image.file = "missing"
    THEN Outcome(PngResponse(qr), gen, NoCall)
    ELSE IF image.file = "undecodable"
    THEN Outcome(HttpError("Failed to decode image", StatusInternalServerError), gen, NoCall)
    ELSE Outcome(PngResponse(overlayImageOnQRCodeWithOpacity_geom(
                                 qr, image.img, percent, opacity).m),
                 gen, OvCall("opacity", image.img, percent, opacity))

logoOpacity_zeroDefault(text) ==
    IF ParseFloat(text).ok THEN ParseFloat(text).val ELSE [n |-> 0, d |-> 1]

\* logoOpacity, err := strconv.ParseFloat(logoOpacityStr, 64);
\* if err != nil { logoOpacity = 1 }
logoOpacity(text) ==
    IF ParseFloat(text).ok THEN ParseFloat(text).val ELSE [n |-> 1, d |-> 1]

\* generateQRCodeHandler (src/main.go:463-559)
generateQRCodeHandler(r) ==
    IF r.method # "POST"
    THEN Outcome(HttpError("Method not allowed", StatusMethodNotAllowed), NoCall, NoCall)
    ELSE IF r.url = 0
    THEN Outcome(HttpError("Missing URL", StatusBadRequest), NoCall, NoCall)
    ELSE IF r.image.file = "unreadable"
    THEN Outcome(HttpError("Error reading image", StatusInternalServerError), NoCall, NoCall)
    ELSE IF r.size = <<>>
    THEN Outcome(HttpError("Missing size", StatusBadRequest), NoCall, NoCall)
    ELSE IF ~Atoi(r.size).ok \/ ~isValidQRCodeSize(Atoi(r.size).val)
    THEN Outcome(HttpError("Invalid size", StatusBadRequest), NoCall, NoCall)
    ELSE IF ~ParseFloat(r.logoWidthPercent).ok
    THEN Outcome(HttpError("Invalid logo width percent", StatusBadRequest), NoCall, NoCall)
    ELSE LET sz  == Atoi(r.size).val
             g   == generateQRCode(r.url, sz)
             gen == GenCall(r.url, sz)
         IN  IF g.err
             THEN Outcome(HttpError("Failed to generate QR code", StatusInternalServerError),
                          gen, NoCall)
             ELSE CustomImageTail(g.img, r.image, gen, ParseFloat(r.logoWidthPercent).val,
                                  logoOpacity(r.logoOpacity))

\* generateVCardQRCodeHandler (src/main.go:804-909)
generateVCardQRCodeHandler(r) ==
    IF r.method # "POST"
    THEN Outcome(HttpError("Method not allowed", StatusMethodNotAllowed), NoCall, NoCall)
    ELSE IF r.size = <<>>
    THEN Outcome(HttpError("Missing size", StatusBadRequest), NoCall, NoCall)
    ELSE IF ~Atoi(r.size).ok \/ ~isValidQRCodeSize(Atoi(r.size).val)
    THEN Outcome(HttpError("Invalid size", StatusBadRequest), NoCall, NoCall)
    ELSE IF ~ParseFloat(r.logoWidthPercent).ok
    THEN Outcome(HttpError("Invalid logo width percent", StatusBadRequest), NoCall, NoCall)
    ELSE LET sz  == Atoi(r.size).val
             g   == generateQRCode(r.vCard, sz)
             gen == GenCall(r.vCard, sz)
         IN  IF g.err
             THEN Outcome(HttpError("Failed to generate QR code", StatusInternalServerError),
                          gen, NoCall)
             ELSE IF r.image.file = "unreadable"
             THEN Outcome(HttpError("Error reading image", StatusInternalServerError),
                          gen, NoCall)
             ELSE CustomImageTail(g.img, r.image, gen, ParseFloat(r.logoWidthPercent).val,
                                  logoOpacity(r.logoOpacity))

\* lat < lo || lat > hi, for the parsed number x
OutOfRange(x, lo, hi) == x.n < lo * x.d \/ x.n > hi * x.d

\* generateMapQRCodeHandler (src/main.go:95-191)
generateMapQRCodeHandler(r) ==
    IF r.method # "POST"
    THEN Outcome(HttpError("Method not allowed", StatusMethodNotAllowed), NoCall, NoCall)
    ELSE IF r.latitude = <<>> \/ r.longitude = <<>>
    THEN Outcome(HttpError("Missing latitude or longitude", StatusBadRequest), NoCall, NoCall)
    ELSE IF ~ParseFloat(r.latitude).ok \/ OutOfRange(ParseFloat(r.latitude).val, -90, 90)
    THEN Outcome(HttpError("Invalid latitude", StatusBadRequest), NoCall, NoCall)
    ELSE IF ~ParseFloat(r.longitude).ok \/ OutOfRange(ParseFloat(r.longitude).val, -180, 180)
    THEN Outcome(HttpError("Invalid longitude", StatusBadRequest), NoCall, NoCall)
    ELSE IF r.size = <<>>
    THEN Outcome(HttpError("Missing size", StatusBadRequest), NoCall, NoCall)
    ELSE IF ~Atoi(r.size).ok \/ ~isValidQRCodeSize(Atoi(r.size).val)
    THEN Outcome(HttpError("Invalid size", StatusBadRequest), NoCall, NoCall)
    ELSE FixedLogoTail(GeoURL, Atoi(r.size).val, r.logo,
                       "Failed to open map logo", "Failed to decode map logo")

generateLinkedInQRCodeHandler_fieldsFirst(r) ==
    IF r.username = 0
    THEN Outcome(HttpError("Missing username", StatusBadRequest), NoCall, NoCall)
    ELSE IF r.method # "POST"
    THEN Outcome(HttpError("Method not allowed", StatusMethodNotAllowed), NoCall, NoCall)
    ELSE IF r.size = <<>>
    THEN Outcome(HttpError("Missing size", StatusBadRequest), NoCall, NoCall)
    ELSE IF ~Atoi(r.size).ok \/ ~isValidQRCodeSize(Atoi(r.size).val)
    THEN Outcome(HttpError("Invalid size", StatusBadRequest), NoCall, NoCall)
    ELSE FixedLogoTail(r.username, Atoi(r.size).val, r.logo,
                       "Failed to open LinkedIn logo", "Failed to decode LinkedIn logo")

\* generateLinkedInQRCodeHandler (src/main.go:306-385); the other
\* single-field fixed-logo handlers differ in the field and logo names only
generateLinkedInQRCodeHandler(r) ==
    IF r.method # "POST"
    THEN Outcome(HttpError("Method not allowed", StatusMethodNotAllowed), NoCall, NoCall)
    ELSE IF r.username = 0
    THEN Outcome(HttpError("Missing username", StatusBadRequest), NoCall, NoCall)
    ELSE IF r.size = <<>>
    THEN Outcome(HttpError("Missing size", StatusBadRequest), NoCall, NoCall)
    ELSE IF ~Atoi(r.size).ok \/ ~isValidQRCodeSize(Atoi(r.size).val)
    THEN Outcome(HttpError("Invalid size", StatusBadRequest), NoCall, NoCall)
    ELSE FixedLogoTail(r.username, Atoi(r.size).val, r.logo,
                       "Failed to open LinkedIn logo", "Failed to decode LinkedIn logo")

\* fmt.Sprintf("WIFI:T:%s;S:%s;P:%s;;", security, ssid, password)
wifiString(security, ssid, password) ==
    <<"W", "I", "F", "I", ":", "T", ":">> \o security \o <<";", "S", ":">> \o ssid
        \o <<";", "P", ":">> \o password \o <<";", ";">>

\* bytes a QR code of versions 1 to 10 holds in byte mode at level High
ByteCapacityHigh == <<7, 14, 24, 34, 44, 58, 64, 84, 98, 119>>

\* the version a text of at most 119 bytes needs in byte mode (the encoder
\* may pack runs of digits or capitals more tightly and need less)
VersionFor(text) ==
    CHOOSE v \in 1 .. 10 :
        /\ Len(text) <= ByteCapacityHigh[v]
        /\ \A u \in 1 .. (v - 1) : Len(text) > ByteCapacityHigh[u]

generateWiFiQRCodeHandler_anyLength(r) ==
    IF r.method # "POST"
    THEN Outcome(HttpError("Method not allowed", StatusMethodNotAllowed), NoCall, NoCall)
    ELSE IF r.ssid = <<>>
    THEN Outcome(HttpError("Missing SSID", StatusBadRequest), NoCall, NoCall)
    ELSE IF r.security \notin {Chars_WPA, Chars_WPA2, Chars_WPA3, Chars_WEP, Chars_nopass}
    THEN Outcome(HttpError("Invalid security type", StatusBadRequest), NoCall, NoCall)
    ELSE IF r.security \in {Chars_WPA, Chars_WPA2, Chars_WPA3} /\ Len(r.password) = 0
    THEN Outcome(HttpError("Password is required for WPA/WPA2/WPA3 security",
                           StatusBadRequest), NoCall, NoCall)
    ELSE IF r.security = Chars_WEP /\ Len(r.password) # 5 /\ Len(r.password) # 13
    THEN Outcome(HttpError("Password for WEP must be exactly 5 or 13 characters",
                           StatusBadRequest), NoCall, NoCall)
    ELSE IF r.size = <<>>
    THEN Outcome(HttpError("Missing size", StatusBadRequest), NoCall, NoCall)
    ELSE IF ~Atoi(r.size).ok \/ ~isValidQRCodeSize(Atoi(r.size).val)
    THEN Outcome(HttpError("Invalid size", StatusBadRequest), NoCall, NoCall)
    ELSE LET text == wifiString(r.security, r.ssid, r.password)
             out  == FixedLogoTail(VersionFor(text), Atoi(r.size).val, r.logo,
                                   "Failed to open Wi-Fi logo", "Failed to decode Wi-Fi logo")
         IN  Outcome(out.resp,
                     [called |-> TRUE, data |-> out.gen.data, size |-> out.gen.size,
                      text |-> text],
                     out.ov)

\* generateWiFiQRCodeHandler (src/main.go:193-304); the call of
\* generateQRCode is recorded with the text it is given
generateWiFiQRCodeHandler(r) ==
    IF r.method # "POST"
    THEN Outcome(HttpError("Method not allowed", StatusMethodNotAllowed), NoCall, NoCall)
    ELSE IF r.ssid = <<>>
    THEN Outcome(HttpError("Missing SSID", StatusBadRequest), NoCall, NoCall)
    ELSE IF r.security \notin {Chars_WPA, Chars_WPA2, Chars_WPA3, Chars_WEP, Chars_nopass}
    THEN Outcome(HttpError("Invalid security type", StatusBadRequest), NoCall, NoCall)
    ELSE IF r.security \in {Chars_WPA, Chars_WPA2, Chars_WPA3} /\ Len(r.password) = 0
    THEN Outcome(HttpError("Password is required for WPA/WPA2/WPA3 security",
                           StatusBadRequest), NoCall, NoCall)
    ELSE IF r.security \in {Chars_WPA, Chars_WPA2, Chars_WPA3}
              /\ (Len(r.password) < 8 \/ Len(r.password) > 63)
    THEN Outcome(HttpError("Password for WPA/WPA2/WPA3 must be between 8 and 63 characters",
                           StatusBadRequest), NoCall, NoCall)
    ELSE IF r.security = Chars_WEP /\ Len(r.password) # 5 /\ Len(r.password) # 13
    THEN Outcome(HttpError("Password for WEP must be exactly 5 or 13 characters",
                           StatusBadRequest), NoCall, NoCall)
    ELSE IF r.size = <<>>
    THEN Outcome(HttpError("Missing size", StatusBadRequest), NoCall, NoCall)
    ELSE IF ~Atoi(r.size).ok \/ ~isValidQRCodeSize(Atoi(r.size).val)
    THEN Outcome(HttpError("Invalid size", StatusBadRequest), NoCall, NoCall)
    ELSE LET text == wifiString(r.security, r.ssid, r.password)
             out  == FixedLogoTail(VersionFor(text), Atoi(r.size).val, r.logo,
                                   "Failed to open Wi-Fi logo", "Failed to decode Wi-Fi logo")
         IN  Outcome(out.resp,
                     [called |-> TRUE, data |-> out.gen.data, size |-> out.gen.size,
                      text |-> text],
                     out.ov)

(***************************************************************************)
(* HandlerSpec: the server answers one request after another.              *)
(***************************************************************************)
HInit ==
    /\ CoreOff
    /\ PixIdle
    /\ CIdle
    /\ hpc = "wait"
    /\ hReq = Nil /\ hResp = Nil /\ hGen = NoCall /\ hOv = NoCall

GenerateQRCodeHandler ==
    /\ hpc = "wait"
    /\ \E r \in GenerateRequests :
           LET out == generateQRCodeHandler(r)
           IN  /\ hReq' = r
               /\ hResp' = out.resp
               /\ hGen' = out.gen
               /\ hOv' = out.ov
    /\ hpc' = "served"
    /\ UNCHANGED coreVars
    /\ UNCHANGED pixVars
    /\ UNCHANGED cVars

GenerateVCardQRCodeHandler ==
    /\ hpc = "wait"
    /\ \E r \in VCardRequests :
           LET out == generateVCardQRCodeHandler(r)
           IN  /\ hReq' = r
               /\ hResp' = out.resp
               /\ hGen' = out.gen
               /\ hOv' = out.ov
    /\ hpc' = "served"
    /\ UNCHANGED coreVars
    /\ UNCHANGED pixVars
    /\ UNCHANGED cVars

GenerateMapQRCodeHandler ==
    /\ hpc = "wait"
    /\ \E r \in MapRequests :
           LET out == generateMapQRCodeHandler(r)
           IN  /\ hReq' = r
               /\ hResp' = out.resp
               /\ hGen' = out.gen
               /\ hOv' = out.ov
    /\ hpc' = "served"
    /\ UNCHANGED coreVars
    /\ UNCHANGED pixVars
    /\ UNCHANGED cVars

GenerateLinkedInQRCodeHandler ==
    /\ hpc = "wait"
    /\ \E r \in LinkedInRequests :
           LET out == generateLinkedInQRCodeHandler(r)
           IN  /\ hReq' = r
               /\ hResp' = out.resp
               /\ hGen' = out.gen
               /\ hOv' = out.ov
    /\ hpc' = "served"
    /\ UNCHANGED coreVars
    /\ UNCHANGED pixVars
    /\ UNCHANGED cVars

GenerateWiFiQRCodeHandler ==
    /\ hpc = "wait"
    /\ \E r \in WiFiRequests :
           LET out == generateWiFiQRCodeHandler(r)
           IN  /\ hReq' = r
               /\ hResp' = out.resp
               /\ hGen' = out.gen
               /\ hOv' = out.ov
    /\ hpc' = "served"
    /\ UNCHANGED coreVars
    /\ UNCHANGED pixVars
    /\ UNCHANGED cVars

\* the handler has returned; the server waits for the next request
HandlerReturns ==
    /\ hpc = "served"
    /\ hpc' = "wait"
    /\ hReq' = Nil /\ hResp' = Nil /\ hGen' = NoCall /\ hOv' = NoCall
    /\ UNCHANGED coreVars
    /\ UNCHANGED pixVars
    /\ UNCHANGED cVars

HandlerNext ==
    \/ GenerateQRCodeHandler
    \/ GenerateVCardQRCodeHandler
    \/ GenerateMapQRCodeHandler
    \/ GenerateLinkedInQRCodeHandler
    \/ GenerateWiFiQRCodeHandler
    \/ HandlerReturns

HandlerSpec == HInit /\ [][HandlerNext]_vars

(***************************************************************************)
(* ConcSpec: net/http runs each request in a goroutine of its own.  The    *)
(* statements of generateLinkedInQRCodeHandler are interleaved for         *)
(* NumWorkers requests in flight; the logo file is the one thing they      *)
(* all read.                                                               *)
(***************************************************************************)
NumWorkers == 2
Workers == 1 .. NumWorkers

\* requests in flight: POST or GET, a short or an overlong username, size
\* "128", "1024" or "abc"
ConcRequests ==
    {[handler |-> "generate_linkedin", method |-> m, username |-> u, size |-> sz] :
        m \in Methods, u \in {1, MaxVersion + 1},
        sz \in {<<"1", "2", "8">>, <<"1", "0", "2", "4">>, <<"a", "b", "c">>}}

\* the logo file on disk: absent, not an image, or a 64x64 image
ConcDisks == {[file |-> "absent"], [file |-> "undecodable"],
              [file |-> "image", img |-> [w |-> 64, h |-> 64]]}

\* the variables declared in the handler, before their first assignment
ZeroLocals == [size |-> 0, url |-> 0, qrCode |-> NilImage, linkedinLogo |-> NilImage]

\* no response written yet
NoResponse == [status |-> 0, contentType |-> "", message |-> "", body |-> NilImage]

Frame_shared(w) == 1

\* the stack frame holding the locals of the handler call of goroutine w
Frame(w) == w

CInit ==
    /\ CoreOff
    /\ PixIdle
    /\ HIdle
    /\ cpc = [w \in Workers |-> "validate"]
    /\ cReq \in [Workers -> ConcRequests]
    /\ cLocals = [w \in Workers |-> ZeroLocals]
    /\ cResp = [w \in Workers |-> NoResponse]
    /\ cDisk \in ConcDisks

\* the handler of goroutine w answers and returns
Answer(w, resp) ==
    /\ cResp' = [cResp EXCEPT ![w] = resp]
    /\ cpc' = [cpc EXCEPT ![w] = "done"]

\* src/main.go:308-337: the method, username and size checks
CValidate(w) ==
    /\ cpc[w] = "validate"
    /\ LET r == cReq[w]
       IN  IF r.method # "POST"
           THEN Answer(w, HttpError("Method not allowed", StatusMethodNotAllowed))
                /\ UNCHANGED cLocals
           ELSE IF r.username = 0
           THEN Answer(w, HttpError("Missing username", StatusBadRequest))
                /\ UNCHANGED cLocals
           ELSE IF r.size = <<>>
           THEN Answer(w, HttpError("Missing size", StatusBadRequest))
                /\ UNCHANGED cLocals
           ELSE IF ~Atoi(r.size).ok \/ ~isValidQRCodeSize(Atoi(r.size).val)
           THEN Answer(w, HttpError("Invalid size", StatusBadRequest))
                /\ UNCHANGED cLocals
           ELSE /\ cLocals' = [cLocals EXCEPT ![Frame(w)].size = Atoi(r.size).val,
                                              ![Frame(w)].url = r.username]
                /\ cpc' = [cpc EXCEPT ![w] = "generate"]
                /\ UNCHANGED cResp
    /\ UNCHANGED <<cReq, cDisk>>
    /\ UNCHANGED coreVars
    /\ UNCHANGED pixVars
    /\ UNCHANGED hVars

\* src/main.go:339-350: url and qrCode, err := generateQRCode(url, size)
CGenerate(w) ==
    /\ cpc[w] = "generate"
    /\ LET l == cLocals[Frame(w)]
           g == generateQRCode(l.url, l.size)
       IN  /\ cLocals' = [cLocals EXCEPT ![Frame(w)].qrCode = g.img]
           /\ IF g.err
              THEN Answer(w, HttpError("Failed to generate QR code", StatusInternalServerError))
              ELSE /\ cpc' = [cpc EXCEPT ![w] = "logo"]
                   /\ UNCHANGED cResp
    /\ UNCHANGED <<cReq, cDisk>>
    /\ UNCHANGED coreVars
    /\ UNCHANGED pixVars
    /\ UNCHANGED hVars

\* src/main.go:353-368: open and decode the logo file
CReadLogo(w) ==
    /\ cpc[w] = "logo"
    /\ IF cDisk.file = "absent"
       THEN Answer(w, HttpError("Failed to open LinkedIn logo", StatusInternalServerError))
            /\ UNCHANGED cLocals
       ELSE IF cDisk.file = "undecodable"
       THEN Answer(w, HttpError("Failed to decode LinkedIn logo", StatusInternalServerError))
            /\ UNCHANGED cLocals
       ELSE /\ cLocals' = [cLocals EXCEPT ![Frame(w)].linkedinLogo = cDisk.img]
            /\ cpc' = [cpc EXCEPT ![w] = "overlay"]
            /\ UNCHANGED cResp
    /\ UNCHANGED <<cReq, cDisk>>
    /\ UNCHANGED coreVars
    /\ UNCHANGED pixVars
    /\ UNCHANGED hVars

\* src/main.go:370-375: qrCode, err = overlayImageOnQRCode(qrCode, linkedinLogo,
\* LogoPercent); a nil image makes the call panic, and net/http ends the
\* request without a response
COverlay(w) ==
    /\ cpc[w] = "overlay"
    /\ LET l == cLocals[Frame(w)]
       IN  IF l.qrCode = NilImage \/ l.linkedinLogo = NilImage
           THEN Answer(w, NoResponse) /\ UNCHANGED cLocals
           ELSE /\ cLocals' = [cLocals EXCEPT ![Frame(w)].qrCode =
                                  overlayImageOnQRCode_geom(l.qrCode, l.linkedinLogo,
                                                            LogoPercent).m]
                /\ cpc' = [cpc EXCEPT ![w] = "encode"]
                /\ UNCHANGED cResp
    /\ UNCHANGED <<cReq, cDisk>>
    /\ UNCHANGED coreVars
    /\ UNCHANGED pixVars
    /\ UNCHANGED hVars

\* src/main.go:377-384: the header and png.Encode(w, qrCode)
CEncode(w) ==
    /\ cpc[w] = "encode"
    /\ Answer(w, PngResponse(cLocals[Frame(w)].qrCode))
    /\ UNCHANGED <<cReq, cLocals, cDisk>>
    /\ UNCHANGED coreVars
    /\ UNCHANGED pixVars
    /\ UNCHANGED hVars

ConcNext ==
    \E w \in Workers :
        \/ CValidate(w)
        \/ CGenerate(w)
        \/ CReadLogo(w)
        \/ COverlay(w)
        \/ CEncode(w)

ConcSpec == CInit /\ [][ConcNext]_vars

(***************************************************************************)
(* Properties.                                                             *)
(***************************************************************************)
One == [n |-> 1, d |-> 1]
Zero == [n |-> 0, d |-> 1]

\* the rectangle at which the call recorded in pRes placed the resized overlay
Placed(xy) ==
    /\ pRes.offset.x <= xy[1] /\ xy[1] < pRes.offset.x + pRes.resized.w
    /\ pRes.offset.y <= xy[2] /\ xy[2] < pRes.offset.y + pRes.resized.h

\* the colour of the base raster at xy, as an 8-bit RGBA quadruple
BaseColour(xy) == pQr.pix[xy]

\* C1: the raster returned by overlayImageOnQRCode and by
\* overlayImageOnQRCodeWithOpacity has the width and the height of the base,
\* and a pixel at exactly the coordinates of the base.
C1_SameDimensions ==
    ppc = "done" =>
        /\ pRes.m.w = pQr.w
        /\ pRes.m.h = pQr.h
        /\ DOMAIN pRes.m.pix = Coords(pQr.w, pQr.h)

C1_Witness ==
    /\ ppc = "done"
    /\ pFn = "opacity"
    /\ pQr.w # pQr.h
    /\ pRes.resized.w < pOverlay.w

\* C2: the overlay that is drawn has width <= floor(base.width * f) and
\* height <= floor(base.height * f).
C2_ResizedWithinBox ==
    pc = "overlaid" =>
        /\ geo.resized.w <= (qrCode.w * overlayPercent.n) \div overlayPercent.d
        /\ geo.resized.h <= (qrCode.h * overlayPercent.n) \div overlayPercent.d

\* C3: the resized overlay w' x h' keeps the aspect ratio of the original
\* w x h within one pixel of rounding in one of the two dimensions:
\* |w' * h - h' * w| <= max(w, h).
C3_AspectRatioKept ==
    pc = "overlaid" =>
        Abs(geo.resized.w * overlay.h - geo.resized.h * overlay.w)
            <= MaxOf(overlay.w, overlay.h)

C3_Witness ==
    /\ pc = "overlaid"
    /\ geo.resized.w < overlay.w
    /\ geo.resized.h < overlay.h
    /\ geo.resized.w > 1 /\ geo.resized.h > 1
    /\ geo.resized.w * overlay.h # geo.resized.h * overlay.w

\* C4: the offset of the drawn overlay is (floor((base.width - resized.width)/2),
\* floor((base.height - resized.height)/2)).
C4_OffsetIsFloorOfCentre ==
    pc = "overlaid" =>
        /\ geo.offset.x = (qrCode.w - geo.resized.w) \div 2
        /\ geo.offset.y = (qrCode.h - geo.resized.h) \div 2

\* C5: every pixel of the result strictly outside the rectangle where the
\* resized overlay was placed equals the pixel of the base at its coordinates.
C5_OutsideUnchanged ==
    ppc = "done" =>
        \A xy \in Coords(pQr.w, pQr.h) :
            ~Placed(xy) => pRes.m.pix[xy] = BaseColour(xy)

C5_Witness ==
    /\ ppc = "done"
    /\ \E xy \in Coords(pQr.w, pQr.h) : ~Placed(xy)
    /\ \E xy \in Coords(pQr.w, pQr.h) : Placed(xy) /\ pRes.m.pix[xy] # BaseColour(xy)

\* C6: overlayImageOnQRCodeWithOpacity with opacity 1.0 returns the raster
\* that overlayImageOnQRCode returns for the same base, overlay and fraction.
C6_OpacityOneEqualsPlain ==
    (ppc = "done" /\ pFn = "opacity" /\ pOpacity = One) =>
        pRes.m = overlayImageOnQRCode(pQr, pOverlay, pPercent).m

\* C7: with opacity 0.0 every pixel of the placed rectangle equals the pixel
\* of the base at that position.
C7_OpacityZeroLeavesBase ==
    (ppc = "done" /\ pFn = "opacity" /\ pOpacity = Zero) =>
        \A xy \in Coords(pQr.w, pQr.h) :
            Placed(xy) => pRes.m.pix[xy] = BaseColour(xy)

\* overlay_color * overlay_alpha + background_color * (1 - overlay_alpha) of
\* channel i, times 255 * 255 / 255: p is the overlay pixel that was drawn
\* and d the base pixel under it
Blend255(kind, p, d, i) ==
    IF i = 4
    THEN p[4] * 255 + d[4] * (255 - p[4])
    ELSE IF kind = "NRGBA"
    THEN p[i] * p[4] + d[i] * (255 - p[4])
    ELSE p[i] * 255 + d[i] * (255 - p[4])

\* C8: inside the placed rectangle every channel of the result is the 'over'
\* blend of the drawn overlay pixel and the base pixel, to within one level
\* of rounding, and the blend stays in the range 0..255 of the channel.
C8_OverBlendInRange ==
    ppc = "done" =>
        \A xy \in Coords(pQr.w, pQr.h) : \A i \in Channels :
            Placed(xy) =>
                LET p == pRes.drawn.pix[<<xy[1] - pRes.offset.x, xy[2] - pRes.offset.y>>]
                    b == Blend255(pRes.drawn.kind, p, BaseColour(xy), i)
                IN  /\ b <= 255 * 255
                    /\ Abs(pRes.m.pix[xy][i] * 255 - b) <= 255

\* C9: for every size of the whitelist and every payload the encoder accepts,
\* generateQRCode returns a raster of width = height = size.
C9_RasterHasRequestedSize ==
    (pc = "generated" /\ ~err) => (qrCode.w = size /\ qrCode.h = size)

\* C10: for a payload the encoder cannot represent at level High,
\* generateQRCode returns an error and no raster; it never returns both a
\* raster and an error.
C10_UnencodableGivesErrorOnly ==
    pc = "generated" =>
        /\ ~Encodable(data) => (err /\ qrCode = NilImage)
        /\ ~(err /\ qrCode # NilImage)

C10_Witness ==
    /\ pc = "generated"
    /\ data = MaxVersion + 1
    /\ err
    /\ qrCode = NilImage

\* floor(side * f), the edge of the bounding box
BoxEdge(side, f) == (side * f.n) \div f.d

\* C17: an overlay wider than the box whose proportional height fits is
\* resized to (boxW, floor(h * boxW / w)); a 2000x1000 overlay on a
\* 1024x1024 base at fraction 0.25 has the box 256x256, is resized to
\* 256x128 and placed at (384, 448).
C17_WidthBoundResize ==
    pc = "overlaid" =>
        LET boxW == BoxEdge(qrCode.w, overlayPercent)
            boxH == BoxEdge(qrCode.h, overlayPercent)
        IN  /\ (qrCode.w = 1024 /\ overlayPercent = LogoPercent
                  /\ overlay = [w |-> 2000, h |-> 1000]) =>
                   /\ geo.overlayMaxWidth = 256 /\ geo.overlayMaxHeight = 256
                   /\ geo.resized = [w |-> 256, h |-> 128]
                   /\ geo.offset = [x |-> 384, y |-> 448]
            /\ (overlay.w > boxW /\ (overlay.h * boxW) \div overlay.w <= boxH) =>
                   geo.resized = [w |-> boxW, h |-> (overlay.h * boxW) \div overlay.w]

\* C18: an overlay that fits inside the bounding box is drawn at its
\* original dimensions and centred; a 64x64 overlay on a 256x256 base at
\* fraction 0.25 stays 64x64 and is placed at (96, 96).
C18_FittingOverlayKept ==
    pc = "overlaid" =>
        /\ (overlay.w <= BoxEdge(qrCode.w, overlayPercent)
              /\ overlay.h <= BoxEdge(qrCode.h, overlayPercent)) =>
                 /\ geo.resized = overlay
                 /\ geo.offset.x = (qrCode.w - overlay.w) \div 2
                 /\ geo.offset.y = (qrCode.h - overlay.h) \div 2
        /\ (qrCode.w = 256 /\ overlayPercent = LogoPercent
              /\ overlay = [w |-> 64, h |-> 64]) =>
                 /\ geo.resized = [w |-> 64, h |-> 64]
                 /\ geo.offset = [x |-> 96, y |-> 96]

C18_Witness ==
    /\ pc = "overlaid"
    /\ fn = "plain"
    /\ qrCode.w = 256
    /\ overlay = [w |-> 64, h |-> 64]
    /\ geo.resized = [w |-> 64, h |-> 64]
    /\ geo.offset = [x |-> 96, y |-> 96]

\* C19: when the bounding box has zero width or zero height the resized
\* overlay is empty (0x0) and the result is pixel-identical to the base.
C19_CollapsedBoxOmitsOverlay ==
    (ppc = "done" /\ (pRes.overlayMaxWidth = 0 \/ pRes.overlayMaxHeight = 0)) =>
        /\ pRes.resized = [w |-> 0, h |-> 0]
        /\ \A xy \in Coords(pQr.w, pQr.h) : pRes.m.pix[xy] = BaseColour(xy)

\* C20: for every opacity above 1 overlayImageOnQRCodeWithOpacity returns
\* the raster it returns for opacity 1.0.
C20_OpacityAboveOneIsOne ==
    (ppc = "done" /\ pFn = "opacity" /\ pOpacity.n > pOpacity.d) =>
        pRes.m = overlayImageOnQRCodeWithOpacity(pQr, pOverlay, pPercent, One).m

\* C12: neither entry point writes a pixel of its base or overlay argument,
\* and the raster returned is an object allocated by the call.
C12_ArgumentsNotWritten ==
    ppc = "done" =>
        /\ pMem.heap[1] = pQr
        /\ pMem.heap[2] = pOverlay
        /\ pMem.m > 2
        /\ pMem.heap[pMem.m] = pRes.m

\* an overlay that fits the box, so that resize.Thumbnail hands back the
\* argument itself, composed with an opacity that changes its pixels
C12_Witness ==
    /\ ppc = "done"
    /\ pFn = "opacity"
    /\ pRes.resized = [w |-> pOverlay.w, h |-> pOverlay.h]
    /\ pRes.drawn # pOverlay
    /\ pMem.heap[2] = pOverlay
    /\ pRes.m # pQr

\* the size texts that denote a size of the whitelist
WhitelistTexts ==
    {<<"1", "2", "8">>, <<"2", "5", "6">>, <<"5", "1", "2">>, <<"1", "0", "2", "4">>}

\* the texts of the requests that denote a number, with the number
NumberOf ==
    (<<"0">> :> [n |-> 0, d |-> 1]) @@ (<<"0", ".", "2", "5">> :> [n |-> 1, d |-> 4]) @@
    (<<"0", ".", "5">> :> [n |-> 1, d |-> 2]) @@ (<<"1">> :> [n |-> 1, d |-> 1]) @@
    (<<"1", ".", "5">> :> [n |-> 3, d |-> 2]) @@ (<<"2">> :> [n |-> 2, d |-> 1]) @@
    (<<"1", "2">> :> [n |-> 12, d |-> 1]) @@ (<<"4", "5", ".", "5">> :> [n |-> 91, d |-> 2]) @@
    (<<"9", "1">> :> [n |-> 91, d |-> 1]) @@ (<<"-", "9", "0">> :> [n |-> -90, d |-> 1]) @@
    (<<"1", "8", "1">> :> [n |-> 181, d |-> 1])

\* equality and order of two rationals
SameNumber(a, b) == a.n * b.d = b.n * a.d
Within(x, lo, hi) == lo * x.d <= x.n /\ x.n <= hi * x.d

\* the text denotes a number of the closed interval [lo, hi]
NumberWithin(text, lo, hi) ==
    text \in DOMAIN NumberOf /\ Within(NumberOf[text], lo, hi)

\* the fraction is in (0, 1]
InUnitInterval(f) == f.n > 0 /\ f.n <= f.d

\* the request lacks a required field, or carries a size outside the
\* whitelist or a numeric field outside its range
ValidationDefect(r) ==
    \/ r.size \notin WhitelistTexts
    \/ r.handler = "generate" /\ r.url = 0
    \/ r.handler = "generate_linkedin" /\ r.username = 0
    \/ r.handler = "generate_map"
         /\ (~NumberWithin(r.latitude, -90, 90) \/ ~NumberWithin(r.longitude, -180, 180))
    \/ r.handler \in {"generate", "generate_vcard"}
         /\ ~(r.logoWidthPercent \in DOMAIN NumberOf
                /\ InUnitInterval(NumberOf[r.logoWidthPercent]))

\* C13: in every handler a failure of the core is answered with 500, and
\* a missing field, a size outside the whitelist or an out-of-range numeric
\* field is answered with 400 (requests of method POST).
C13_FailureClasses ==
    (hpc = "served" /\ hReq.method = "POST") =>
        /\ (hGen.called /\ ~Encodable(hGen.data)) => hResp.status = StatusInternalServerError
        /\ ValidationDefect(hReq) => hResp.status = StatusBadRequest
        /\ hResp.status = StatusBadRequest => ~hGen.called

\* C14: generateQRCode is called only with a size of the whitelist, and a
\* request whose size is absent, non-numeric or any other integer is
\* answered with 400 without a call of generateQRCode (requests of method
\* POST).
C14_SizeValidatedFirst ==
    hpc = "served" =>
        /\ hGen.called => hGen.size \in {128, 256, 512, 1024}
        /\ (hReq.method = "POST" /\ hReq.size \notin WhitelistTexts) =>
               (hResp.status = StatusBadRequest /\ ~hGen.called)

\* C15: whenever a handler calls an overlay function, the fraction it
\* passes is in (0, 1].
C15_FractionInUnitInterval ==
    (hpc = "served" /\ hOv.called) => InUnitInterval(hOv.percent)

\* C16: in /generate and /generate_vcard the opacity passed to the
\* compositor is 1.0 when logoOpacity is absent or is no number, and the
\* number it denotes otherwise.
C16_OpacityDefaultsToOne ==
    (hpc = "served" /\ hReq.handler \in {"generate", "generate_vcard"} /\ hOv.called) =>
        /\ hOv.fn = "opacity"
        /\ IF hReq.logoOpacity \in DOMAIN NumberOf
           THEN SameNumber(hOv.opacity, NumberOf[hReq.logoOpacity])
           ELSE hOv.opacity = One

C16_Witness ==
    /\ hpc = "served"
    /\ hReq.handler = "generate_vcard"
    /\ hReq.logoOpacity = <<"x">>
    /\ hOv.called
    /\ hOv.opacity = One
    /\ hResp.status = StatusOK

\* C24: for every fraction in (0, 1], one side of the resized overlay
\* equals the corresponding edge of the bounding box and neither side is
\* larger than the box.
C24_ResizedTouchesBox ==
    (pc = "overlaid" /\ InUnitInterval(overlayPercent)) =>
        LET boxW == BoxEdge(qrCode.w, overlayPercent)
            boxH == BoxEdge(qrCode.h, overlayPercent)
        IN  /\ geo.resized.w = boxW \/ geo.resized.h = boxH
            /\ geo.resized.w <= boxW
            /\ geo.resized.h <= boxH

\* the overlay as resized by the call recorded in pRes, before any opacity
ResizedOverlay == ThumbnailImage(pOverlay, pRes.resized)

\* C25: for every opacity in [0, 1] applyOpacity returns a raster of the
\* same bounds in which each pixel has the alpha floor(alpha * opacity), the
\* colour channels of the input pixel, and no colour channel above the alpha
\* (the RGBA raster it returns is alpha-premultiplied).
C25_ApplyOpacityScalesAlpha ==
    (ppc = "done" /\ pFn = "opacity" /\ Within(pOpacity, 0, 1)) =>
        /\ pRes.drawn.w = ResizedOverlay.w /\ pRes.drawn.h = ResizedOverlay.h
        /\ \A xy \in Coords(ResizedOverlay.w, ResizedOverlay.h) :
               LET c == RGBA16(ResizedOverlay.kind, ResizedOverlay.pix[xy])
                   q == pRes.drawn.pix[xy]
               IN  /\ q[4] = ((c[4] * pOpacity.n) \div pOpacity.d) \div 256
                   /\ \A i \in 1 .. 3 : q[i] = c[i] \div 256
                   /\ \A i \in 1 .. 3 : q[i] <= q[4]

\* C26: for the same base, overlay and fraction overlayImageOnQRCodeWithOpacity
\* uses the resized size and the offset overlayImageOnQRCode uses, whatever
\* the opacity; the faded overlay has the bounds of the resized one, is made
\* from it, and is what is blended.
C26_SameGeometryAsPlain ==
    (ppc = "done" /\ pFn = "opacity") =>
        LET plain == overlayImageOnQRCode(pQr, pOverlay, pPercent)
        IN  /\ pRes.resized = plain.resized
            /\ pRes.offset = plain.offset
            /\ pRes.drawn.w = plain.drawn.w /\ pRes.drawn.h = plain.drawn.h
            /\ pRes.drawn = applyOpacity(plain.drawn, pOpacity)

\* a resized overlay, faded to other pixel values, placed off the origin
C26_Witness ==
    /\ ppc = "done"
    /\ pFn = "opacity"
    /\ pRes.resized.w < pOverlay.w
    /\ pRes.offset.x > 0
    /\ pRes.drawn.pix # ResizedOverlay.pix
    /\ pRes.offset = overlayImageOnQRCode(pQr, pOverlay, pPercent).offset

\* the handlers that take an optional image upload, and those that
\* overlay a logo file
CustomImageHandlers == {"generate", "generate_vcard"}
FixedLogoHandlers == {"generate_map", "generate_linkedin", "generate_wifi"}

\* the image source of the request: the uploaded part or the logo file
ImageSource(r) == IF r.handler \in CustomImageHandlers THEN r.image ELSE r.logo

\* the messages of the failures after validation
FailureMessages ==
    {"Failed to generate QR code", "Error reading image", "Failed to decode image",
     "Failed to open map logo", "Failed to decode map logo",
     "Failed to open LinkedIn logo", "Failed to decode LinkedIn logo",
     "Failed to open Wi-Fi logo", "Failed to decode Wi-Fi logo"}

\* C22: image/png and a raster are written only after generateQRCode and,
\* where they apply, opening and decoding the logo and the overlay have
\* succeeded; if generateQRCode was called and a step failed, the response
\* is a 500 with one of the fixed messages and carries no raster.
C22_PngOnlyAfterSuccess ==
    hpc = "served" =>
        /\ (hResp.contentType = "image/png" \/ hResp.body # NilImage) =>
               /\ hResp.status = StatusOK /\ hResp.contentType = "image/png"
               /\ hGen.called /\ Encodable(hGen.data)
               /\ hReq.handler \in FixedLogoHandlers =>
                      (hReq.logo.file = "image" /\ hOv.called)
               /\ hReq.handler \in CustomImageHandlers =>
                      (hReq.image.file \in {"missing", "image"}
                         /\ (hOv.called <=> hReq.image.file = "image"))
               /\ hResp.body = [w |-> MaxOf(hGen.size, RealSize(hGen.data)),
                                h |-> MaxOf(hGen.size, RealSize(hGen.data))]
        /\ (hGen.called
              /\ (~Encodable(hGen.data) \/ ImageSource(hReq).file \notin {"missing", "image"})) =>
               /\ hResp.status = StatusInternalServerError
               /\ hResp.message \in FailureMessages
               /\ hResp.contentType # "image/png"
               /\ hResp.body = NilImage

C22_Witness ==
    /\ hpc = "served"
    /\ hReq.handler = "generate_map"
    /\ hGen.called
    /\ hReq.logo.file = "undecodable"
    /\ hResp.status = StatusInternalServerError
    /\ hResp.message = "Failed to decode map logo"
    /\ hResp.body = NilImage

\* C23: an overlay function is called only with a decoded raster; when the
\* image bytes cannot be decoded no overlay function is called and the
\* response is an error.
C23_OverlayOnlyDecoded ==
    hpc = "served" =>
        /\ hOv.called =>
               (ImageSource(hReq).file = "image" /\ hOv.overlay = ImageSource(hReq).img)
        /\ ImageSource(hReq).file = "undecodable" =>
               (~hOv.called /\ hResp.status >= 400 /\ hResp.body = NilImage)

C23_Witness ==
    /\ hpc = "served"
    /\ hReq.handler = "generate"
    /\ hReq.image.file = "undecodable"
    /\ hGen.called
    /\ ~hOv.called
    /\ hResp.message = "Failed to decode image"
    /\ hResp.status = StatusInternalServerError

\* the Wi-Fi request has an SSID, an accepted security type and a password
\* of the length that type asks for
WiFiAcceptable(r) ==
    /\ r.ssid # <<>>
    /\ r.security \in {Chars_WPA, Chars_WPA2, Chars_WPA3, Chars_WEP, Chars_nopass}
    /\ r.security \in {Chars_WPA, Chars_WPA2, Chars_WPA3} =>
           (Len(r.password) >= 8 /\ Len(r.password) <= 63)
    /\ r.security = Chars_WEP => Len(r.password) \in {5, 13}

\* "WIFI:T:WPA2;S:MyNet;P:secret123;;"
ScenarioB ==
    <<"W", "I", "F", "I", ":", "T", ":", "W", "P", "A", "2", ";", "S", ":",
      "M", "y", "N", "e", "t", ";", "P", ":",
      "s", "e", "c", "r", "e", "t", "1", "2", "3", ";", ";">>

\* generateQRCode is reached only by an acceptable request, with the text
\* "WIFI:T:<security>;S:<ssid>;P:<password>;;"
WiFiReachesCore ==
    hGen.called =>
        /\ WiFiAcceptable(hReq)
        /\ hGen.text = <<"W", "I", "F", "I", ":", "T", ":">> \o hReq.security
                          \o <<";", "S", ":">> \o hReq.ssid
                          \o <<";", "P", ":">> \o hReq.password \o <<";", ";">>
        /\ (hReq.security = Chars_WPA2 /\ Len(hReq.ssid) = 5 /\ Len(hReq.password) = 9) =>
               hGen.text = ScenarioB

\* C27 (as claimed): generateWiFiQRCodeHandler reaches generateQRCode only
\* with an acceptable request and the text WIFI:T:<security>;S:<ssid>;P:<password>;;
\* and every other request is answered 400.
C27_WiFiOthersGet400 ==
    (hpc = "served" /\ hReq.handler = "generate_wifi") =>
        /\ WiFiReachesCore
        /\ ~WiFiAcceptable(hReq) => (hResp.status = StatusBadRequest /\ ~hGen.called)

\* C27 (amended): generateWiFiQRCodeHandler reaches generateQRCode only
\* with an acceptable request and the text WIFI:T:<security>;S:<ssid>;P:<password>;;
\* every other request of method POST is answered 400, and a request of
\* another method 405.
C27_WiFiOtherPostsGet400 ==
    (hpc = "served" /\ hReq.handler = "generate_wifi") =>
        /\ WiFiReachesCore
        /\ (hReq.method = "POST" /\ ~WiFiAcceptable(hReq)) =>
               (hResp.status = StatusBadRequest /\ ~hGen.called)
        /\ hReq.method # "POST" =>
               (hResp.status = StatusMethodNotAllowed /\ ~hGen.called)

C27_Witness ==
    /\ hpc = "served"
    /\ hReq.handler = "generate_wifi"
    /\ hGen.called
    /\ hGen.text = ScenarioB
    /\ hResp.status = StatusOK

\* C28: a request whose method is not POST is answered 405, whatever its
\* fields; neither generateQRCode nor an overlay function is called and no
\* raster is written.
C28_MethodCheckedFirst ==
    (hpc = "served" /\ hReq.method # "POST") =>
        /\ hResp.status = StatusMethodNotAllowed
        /\ hResp.message = "Method not allowed"
        /\ ~hGen.called /\ ~hOv.called
        /\ hResp.body = NilImage /\ hResp.contentType # "image/png"

\* a GET that also lacks its required field
C28_Witness ==
    /\ hpc = "served"
    /\ hReq.handler = "generate_linkedin"
    /\ hReq.method = "GET"
    /\ hReq.username = 0
    /\ hResp.status = StatusMethodNotAllowed

\* C29: in /generate and /generate_vcard a request whose logoWidthPercent
\* is absent or is no number is answered 400 without a call of
\* generateQRCode, also when no image is uploaded (requests of method POST).
C29_PercentRequired ==
    (hpc = "served" /\ hReq.handler \in CustomImageHandlers /\ hReq.method = "POST"
       /\ hReq.logoWidthPercent \notin DOMAIN NumberOf) =>
        (hResp.status = StatusBadRequest /\ ~hGen.called)

\* C30: in /generate and /generate_vcard a request without an image file
\* has no overlay function called, and the raster written, if any, is the
\* one generateQRCode returned.
C30_NoImageNoOverlay ==
    (hpc = "served" /\ hReq.handler \in CustomImageHandlers
       /\ hReq.image.file \in {"missing", "unreadable"}) =>
        /\ ~hOv.called
        /\ hResp.status = StatusOK =>
               (hGen.called /\ hResp.body = generateQRCode(hGen.data, hGen.size).img)

C30_Witness ==
    /\ hpc = "served"
    /\ hReq.handler = "generate"
    /\ hReq.image.file = "missing"
    /\ hReq.logoWidthPercent = <<"2">>
    /\ hReq.logoOpacity = <<"1", ".", "5">>
    /\ hResp.status = StatusOK
    /\ hResp.body = [w |-> 128, h |-> 128]
    /\ ~hOv.called

\* the response the request of goroutine w gets when it is the only one
\* being served
AloneResponse(w) ==
    generateLinkedInQRCodeHandler(
        [handler |-> "generate_linkedin", method |-> cReq[w].method,
         username |-> cReq[w].username, size |-> cReq[w].size, logo |-> cDisk]).resp

\* C21: under every interleaving of the requests in flight, the response
\* written for each request (status and raster) is the response it gets
\* when it is the only request being served.
C21_ResponseAsIfAlone ==
    \A w \in Workers : cpc[w] = "done" => cResp[w] = AloneResponse(w)

\* one request answered with its 128x128 raster while another, of size
\* 1024, is in flight between generateQRCode and the overlay
C21_Witness ==
    /\ cpc[1] = "done"
    /\ cResp[1].status = StatusOK
    /\ cResp[1].body = [w |-> 128, h |-> 128]
    /\ cpc[2] = "overlay"
    /\ cLocals[2].qrCode = [w |-> 1024, h |-> 1024]

====
